---------------------------- MODULE Spec2Model ----------------------------
(***************************************************************************)
(* polyphona API: the routing table built by api/factory.py (create_api),  *)
(* the requests it dispatches and the database the resources share.        *)
(*                                                                         *)
(* factory.py is the code modelled from source.  The resource classes      *)
(* (api/resources/*.py) and the Database (api/db.py) are imported by it;    *)
(* their behaviour is taken from the design document (sections 4.1-4.5,    *)
(* 6 and 7).  falcon's dispatch and falcon_cors' middleware are modelled    *)
(* as those libraries document them.                                       *)
(***************************************************************************)
EXTENDS Naturals, Sequences, FiniteSets

VARIABLES
  injected,   \* the Database object handed to create_api
  api,        \* the falcon API returned by create_api(injected)
  store,      \* content of every Database object of the process
  pc,         \* per worker: "idle", "responder" or "done"
  req,        \* per worker: the request being served
  resp,       \* per worker: the response under construction / produced
  hist        \* what successful creations returned to their clients

vars == <<injected, api, store, pc, req, resp, hist>>

---------------------------------------------------------------------------
(* Bounds and input alphabets *)

MaxSongs == 2
MaxTokens == 2

Workers == {"w1", "w2"}
Databases == {"db", "db2"}
Usernames == {"alice", "bob"}
\* Every request names its origin (an Origin header).
Origins == {"http://a.example", "http://b.example"}
Methods == {"GET", "POST", "DELETE"}

\* ids the gateway assigns to songs, in order of creation
SongIds == <<"1", "2", "3", "4">>
\* values the gateway can generate for tokens
TokenValues == {"t1", "t2", "t3"}

NoBody == << >>
Absent == "-"

\* Request paths, as their segments ("/users/" is <<"users">>).
Paths ==
  { <<"users">>, <<"users", "alice">>,
    <<"users", "alice", "songs">>, <<"users", "bob", "songs">>,
    <<"songs">>, <<"songs", "1">>, <<"songs", "9">>,
    <<"tokens">>, <<"tokens", "t1">>, <<"tokens", "zz">>,
    <<"nowhere">> }

Bodies ==
  { NoBody }
  \cup { [username |-> u] : u \in Usernames }
  \cup { [owner |-> u, title |-> "X"] : u \in Usernames }
  \cup { [title |-> "X"] }
  \cup { [subject |-> u] : u \in Usernames }

\* Only a POST carries a body.
Requests ==
  { r \in [method : Methods, path : Paths, body : Bodies, origin : Origins] :
      r.method = "POST" \/ r.body = NoBody }

---------------------------------------------------------------------------
(* factory.py *)

CORS(all_origins, all_methods, all_headers, origins_list) ==
  [ allow_all_origins |-> all_origins,
    allow_all_methods |-> all_methods,
    allow_all_headers |-> all_headers,
    allow_origins_list |-> origins_list ]

\* A resource object: its class, its identity, the database it was given.
Resource(cls, oid, db) == [cls |-> cls, oid |-> oid, db |-> db]

OtherDb(db) == CHOOSE d \in Databases : d # db

cors_restricted ==
  CORS(FALSE, TRUE, TRUE, {"http://a.example"})

\* factory.py 18-20
cors ==
  CORS(TRUE, TRUE, TRUE, {})

user_resource_own_db(db) ==
  Resource("UserResource", 1, OtherDb(db))

\* factory.py 23: UserResource(db)
user_resource(db) ==
  Resource("UserResource", 1, db)

user_songs_resource_own_db(db) ==
  Resource("UserSongsResource", 2, OtherDb(db))

\* factory.py 25: UserSongsResource(db)
user_songs_resource(db) ==
  Resource("UserSongsResource", 2, db)

song_resource_own_db(db) ==
  Resource("SongResource", 3, OtherDb(db))

\* factory.py 27: song_resource = SongResource(db)
song_resource(db) ==
  Resource("SongResource", 3, db)

\* factory.py 31: token_resource = TokenResource(db)
token_resource(db) ==
  Resource("TokenResource", 4, db)

token_item_resource_own_db(db) ==
  Resource("TokenResource", 5, OtherDb(db))

\* factory.py 32: a second TokenResource(db), constructed in the add_route call
token_item_resource(db) ==
  Resource("TokenResource", 5, db)

Route(template, resource) == [template |-> template, resource |-> resource]

add_routes_with_user_item(db) ==
  << Route(<<"users">>, user_resource(db)),
     Route(<<"users", "{username}">>, user_resource(db)),
     Route(<<"users", "{username}", "songs">>, user_songs_resource(db)),
     Route(<<"songs", "{pk}">>, song_resource(db)),
     Route(<<"songs">>, song_resource(db)),
     Route(<<"tokens", "{token}">>, token_item_resource(db)),
     Route(<<"tokens">>, token_resource(db)) >>

\* factory.py 23-33: the add_route calls, in order
add_routes(db) ==
  << Route(<<"users">>, user_resource(db)),
     Route(<<"users", "{username}", "songs">>, user_songs_resource(db)),
     Route(<<"songs", "{pk}">>, song_resource(db)),
     Route(<<"songs">>, song_resource(db)),
     Route(<<"tokens", "{token}">>, token_item_resource(db)),
     Route(<<"tokens">>, token_resource(db)) >>

\* factory.py 17-35
create_api(db) ==
  [ middleware |-> <<cors>>, routes |-> add_routes(db) ]

---------------------------------------------------------------------------
(* falcon: routing of a request path to a resource, and falcon_cors *)

IsField(seg) == seg \in {"{username}", "{pk}", "{token}"}

\* A template matches a path segment by segment; a field matches any segment.
Match(template, path) ==
  /\ Len(template) = Len(path)
  /\ \A i \in 1..Len(template) : IsField(template[i]) \/ template[i] = path[i]

Matching(a, path) ==
  { i \in 1..Len(a.routes) : Match(a.routes[i].template, path) }

Routed(a, path) == Matching(a, path) # {}

\* The route a routed path is dispatched to.
RouteOf(a, path) ==
  a.routes[CHOOSE i \in Matching(a, path) : \A j \in Matching(a, path) : i <= j]

\* The value of the template's field in the path, Absent for a collection route.
Field(template, path) ==
  IF \E i \in 1..Len(template) : IsField(template[i])
  THEN path[CHOOSE i \in 1..Len(template) : IsField(template[i])]
  ELSE Absent

NoCors == [origin |-> "", methods |-> "", headers |-> ""]

\* falcon_cors: the policy's answer to a request from `origin`.
ProcessCors(policy, origin) ==
  IF policy.allow_all_origins \/ origin \in policy.allow_origins_list
  THEN [ origin  |-> IF policy.allow_all_origins THEN "*" ELSE origin,
         methods |-> IF policy.allow_all_methods THEN "*" ELSE "listed",
         headers |-> IF policy.allow_all_headers THEN "*" ELSE "listed" ]
  ELSE NoCors

\* The middleware of the API: falcon_cors hooks process_resource, which falcon
\* runs for every request routed to a resource, before its responder.
Decorate(a, origin) ==
  IF Len(a.middleware) = 0 THEN NoCors
  ELSE ProcessCors(a.middleware[1], origin)

AllowAll == [origin |-> "*", methods |-> "*", headers |-> "*"]

---------------------------------------------------------------------------
(* Database gateway (section 4.1 of the design document) *)

EmptyContent == [users |-> << >>, songs |-> << >>, tokens |-> << >>]

SeededContent ==
  [ users  |-> << [username |-> "bob"] >>,
    songs  |-> << [id |-> "1", owner |-> "bob", title |-> "X"] >>,
    tokens |-> << [token |-> "t1", subject |-> "bob"] >> ]

\* The process holds two Database objects: one new, one already in use.
InitialStore == [d \in Databases |-> IF d = "db" THEN EmptyContent ELSE SeededContent]

Range(s) == { s[i] : i \in 1..Len(s) }

Ok(value, c) == [err |-> "none", value |-> value, content |-> c]
Fail(err, c) == [err |-> err, value |-> << >>, content |-> c]

HasUser(c, username) == \E u \in Range(c.users) : u.username = username

list_users(c) == Ok(c.users, c)

create_user(c, fields) ==
  IF "username" \notin DOMAIN fields THEN Fail("ValidationError", c)
  ELSE IF HasUser(c, fields.username) THEN Fail("Conflict", c)
  ELSE LET user == [username |-> fields.username]
       IN Ok(<<user>>, [c EXCEPT !.users = Append(@, user)])

find_songs_by_owner(c, username) ==
  IF ~HasUser(c, username) THEN Fail("NotFound", c)
  ELSE LET Owned(s) == s.owner = username
       IN Ok(SelectSeq(c.songs, Owned), c)

find_song(c, id) ==
  IF \E s \in Range(c.songs) : s.id = id
  THEN LET Is(s) == s.id = id IN Ok(SelectSeq(c.songs, Is), c)
  ELSE Fail("NotFound", c)

list_songs(c) == Ok(c.songs, c)

create_song(c, fields) ==
  IF "owner" \notin DOMAIN fields THEN Fail("ValidationError", c)
  ELSE IF ~HasUser(c, fields.owner) THEN Fail("ValidationError", c)
  ELSE LET song == [ id    |-> SongIds[Len(c.songs) + 1],
                     owner |-> fields.owner,
                     title |-> IF "title" \in DOMAIN fields
                               THEN fields.title ELSE "" ]
       IN Ok(<<song>>, [c EXCEPT !.songs = Append(@, song)])

find_token(c, token) ==
  IF \E t \in Range(c.tokens) : t.token = token
  THEN LET Is(t) == t.token = token IN Ok(SelectSeq(c.tokens, Is), c)
  ELSE Fail("NotFound", c)

list_tokens(c) == Ok(c.tokens, c)

\* `fresh` is the value the gateway generates for the new token.
create_token(c, fields, fresh) ==
  IF "subject" \notin DOMAIN fields THEN Fail("ValidationError", c)
  ELSE IF ~HasUser(c, fields.subject) THEN Fail("ValidationError", c)
  ELSE LET token == [token |-> fresh, subject |-> fields.subject]
       IN Ok(<<token>>, [c EXCEPT !.tokens = Append(@, token)])

FreshTokens(c) == TokenValues \ { t.token : t \in Range(c.tokens) }

---------------------------------------------------------------------------
(* Resources (sections 4.2-4.5, 6 and 7 of the design document) *)

\* The methods a resource answers on a collection route (field = Absent)
\* and on an item route.
Supports(cls, method, field) ==
  CASE cls = "UserResource"      -> method \in {"GET", "POST"} /\ field = Absent
    [] cls = "UserSongsResource" -> method = "GET" /\ field # Absent
    [] cls = "SongResource"      -> \/ method = "GET"
                                    \/ method = "POST" /\ field = Absent
    [] cls = "TokenResource"     -> \/ method = "GET"
                                    \/ method = "POST" /\ field = Absent
    [] OTHER -> FALSE

StatusOf(err, success) ==
  CASE err = "none"            -> success
    [] err = "NotFound"        -> 404
    [] err = "ValidationError" -> 400
    [] err = "Conflict"        -> 409
    [] OTHER                   -> 500

\* The gateway call a responder makes.
GatewayCall(cls, method, field, body, c, fresh) ==
  CASE cls = "UserResource" /\ method = "GET"   -> list_users(c)
    [] cls = "UserResource" /\ method = "POST"  -> create_user(c, body)
    [] cls = "UserSongsResource"                -> find_songs_by_owner(c, field)
    [] cls = "SongResource" /\ method = "POST"  -> create_song(c, body)
    [] cls = "SongResource" /\ field = Absent   -> list_songs(c)
    [] cls = "SongResource"                     -> find_song(c, field)
    [] cls = "TokenResource" /\ method = "POST" -> create_token(c, body, fresh)
    [] cls = "TokenResource" /\ field = Absent  -> list_tokens(c)
    [] cls = "TokenResource"                    -> find_token(c, field)
    [] OTHER                                    -> Fail("Unexpected", c)

---------------------------------------------------------------------------
(* Serving a request *)

NoRequest == [method |-> "", path |-> << >>, body |-> NoBody, origin |-> ""]
NoResponse == [status |-> 0, cors |-> NoCors, served_by |-> 0, body |-> << >>]

Response(status, decoration, oid, body) ==
  [status |-> status, cors |-> decoration, served_by |-> oid, body |-> body]

\* Creations accepted and not yet carried out, per collection route.
Pending(path) ==
  Cardinality({ w \in Workers : /\ pc[w] = "responder"
                                /\ req[w].method = "POST"
                                /\ req[w].path = path })

\* The gateway can still assign an id or generate a token for the request.
Room(r) ==
  /\ (r.method = "POST" /\ r.path = <<"songs">>) =>
       \A d \in Databases : Len(store[d].songs) + Pending(r.path) < MaxSongs
  /\ (r.method = "POST" /\ r.path = <<"tokens">>) =>
       \A d \in Databases : Len(store[d].tokens) + Pending(r.path) < MaxTokens

\* A worker takes a request: falcon routes it, answers 404 for a path no
\* template matches and 405 for a method the resource lacks, and otherwise
\* runs the middleware and hands over to the responder.
Receive(w, r) ==
  /\ pc[w] = "idle"
  /\ Room(r)
  /\ req' = [req EXCEPT ![w] = r]
  /\ IF ~Routed(api, r.path)
     THEN /\ resp' = [resp EXCEPT ![w] = Response(404, NoCors, 0, << >>)]
          /\ pc' = [pc EXCEPT ![w] = "done"]
     ELSE LET rt == RouteOf(api, r.path)
              decoration == Decorate(api, r.origin)
          IN IF ~Supports(rt.resource.cls, r.method, Field(rt.template, r.path))
             THEN /\ resp' = [resp EXCEPT ![w] =
                                Response(405, decoration, 0, << >>)]
                  /\ pc' = [pc EXCEPT ![w] = "done"]
             ELSE /\ resp' = [resp EXCEPT ![w] =
                                Response(0, decoration, rt.resource.oid, << >>)]
                  /\ pc' = [pc EXCEPT ![w] = "responder"]
  /\ UNCHANGED <<injected, api, store, hist>>

Record(h, cls, method, out) ==
  IF method = "POST" /\ out.err = "none"
  THEN CASE cls = "UserResource"  -> [h EXCEPT !.users = @ \cup Range(out.value)]
         [] cls = "SongResource"  -> [h EXCEPT !.songs = @ \cup Range(out.value)]
         [] cls = "TokenResource" -> [h EXCEPT !.tokens = @ \cup Range(out.value)]
         [] OTHER -> h
  ELSE h

\* The responder of the matched resource runs: one gateway call on the
\* resource's database, mapped to a status and a body.
Handle(w) ==
  /\ pc[w] = "responder"
  /\ LET r == req[w]
         rt == RouteOf(api, r.path)
         res == rt.resource
         field == Field(rt.template, r.path)
         c == store[res.db]
         generated == IF res.cls = "TokenResource" /\ r.method = "POST"
                      THEN FreshTokens(c) ELSE {Absent}
     IN \E fresh \in generated :
          LET out == GatewayCall(res.cls, r.method, field, r.body, c, fresh)
              status == StatusOf(out.err, IF r.method = "POST" THEN 201 ELSE 200)
          IN /\ store' = [store EXCEPT ![res.db] = out.content]
             /\ resp' = [resp EXCEPT ![w] =
                           Response(status, @.cors, @.served_by, out.value)]
             /\ hist' = Record(hist, res.cls, r.method, out)
  /\ pc' = [pc EXCEPT ![w] = "done"]
  /\ UNCHANGED <<injected, api, req>>

\* The response is sent; the worker is free for the next request.
Respond(w) ==
  /\ pc[w] = "done"
  /\ pc' = [pc EXCEPT ![w] = "idle"]
  /\ req' = [req EXCEPT ![w] = NoRequest]
  /\ resp' = [resp EXCEPT ![w] = NoResponse]
  /\ UNCHANGED <<injected, api, store, hist>>

Init ==
  /\ injected \in Databases
  /\ api = create_api(injected)
  /\ store = InitialStore
  /\ pc = [w \in Workers |-> "idle"]
  /\ req = [w \in Workers |-> NoRequest]
  /\ resp = [w \in Workers |-> NoResponse]
  /\ hist = [users |-> {}, songs |-> {}, tokens |-> {}]

\* One worker: requests are served one at a time, each to completion.
Next ==
  \/ \E r \in Requests : Receive("w1", r)
  \/ Handle("w1")
  \/ Respond("w1")

Spec == Init /\ [][Next]_vars

\* Several workers serve requests on /users/ concurrently; the gateway call
\* of each is one atomic step.
UserRequests == { r \in Requests : r.path = <<"users">> }

NextWorkers ==
  \E w \in Workers :
    \/ \E r \in UserRequests : Receive(w, r)
    \/ Handle(w)
    \/ Respond(w)

SpecWorkers == Init /\ [][NextWorkers]_vars

---------------------------------------------------------------------------
(* Vocabulary of the properties *)

\* The collections of the application: those of the injected database.
Users == store[injected].users
Songs == store[injected].songs
Tokens == store[injected].tokens

\* Worker w has a response (complete, or decorated and awaiting its responder).
Serving(w) == pc[w] # "idle"
Answered(w) == pc[w] = "done"

\* The step in which the responder of w's request runs.
Handled(w) == pc[w] = "responder" /\ pc'[w] = "done"

Is(r, method, path) == r.method = method /\ r.path = path

\* The six path templates and the nine method/path pairs of the interface.
Templates ==
  { <<"users">>, <<"users", "{username}", "songs">>,
    <<"songs">>, <<"songs", "{pk}">>,
    <<"tokens">>, <<"tokens", "{token}">> }

Interface ==
  { <<"POST", <<"users">>>>, <<"GET", <<"users">>>>,
    <<"GET", <<"users", "{username}", "songs">>>>,
    <<"GET", <<"songs">>>>, <<"POST", <<"songs">>>>,
    <<"GET", <<"songs", "{pk}">>>>,
    <<"GET", <<"tokens">>>>, <<"POST", <<"tokens">>>>,
    <<"GET", <<"tokens", "{token}">>>> }

TemplatesOf(path) == { t \in Templates : Match(t, path) }

Occurrences(seq, e) == Cardinality({ i \in 1..Len(seq) : seq[i] = e })

---------------------------------------------------------------------------
(* C1 *)

---------------------------------------------------------------------------
(* C2 *)

---------------------------------------------------------------------------
(* C3 *)

\* C3: a GET /users/ returns the user collection, in which every user that
\* an earlier POST /users/ created (answered 201) occurs exactly once.
C3_CreatedUserListedOnce ==
  [][ \A w \in Workers :
        Handled(w) /\ Is(req[w], "GET", <<"users">>) =>
          /\ resp'[w].status = 200
          /\ resp'[w].body = Users
          /\ \A u \in hist.users : Occurrences(resp'[w].body, u) = 1 ]_vars

C3_Witness ==
  /\ Answered("w1")
  /\ Is(req["w1"], "GET", <<"users">>)
  /\ resp["w1"].status = 200
  /\ [username |-> "alice"] \in hist.users
  /\ Occurrences(resp["w1"].body, [username |-> "alice"]) = 1
  /\ Len(resp["w1"].body) = 2

---------------------------------------------------------------------------
(* C4 *)

OwnedBy(username) ==
  LET Owned(s) == s.owner = username IN SelectSeq(Songs, Owned)

\* C4: for an existing user u, GET /users/{u}/songs returns exactly the songs
\* of the song collection whose owner is u: every song POST /songs/ created
\* for u is in it, and no song of another owner is.
C4_SongsOfOwner ==
  [][ \A w \in Workers : \A u \in Usernames :
        /\ Handled(w)
        /\ Is(req[w], "GET", <<"users", u, "songs">>)
        /\ HasUser(store[injected], u)
        => /\ resp'[w].status = 200
           /\ resp'[w].body = OwnedBy(u)
           /\ \A s \in hist.songs : s.owner = u => Occurrences(resp'[w].body, s) = 1
           /\ \A s \in Range(resp'[w].body) : s.owner = u ]_vars

C4_Witness ==
  /\ Answered("w1")
  /\ Is(req["w1"], "GET", <<"users", "alice", "songs">>)
  /\ resp["w1"].status = 200
  /\ Len(resp["w1"].body) = 1
  /\ resp["w1"].body[1] \in hist.songs
  /\ \E s \in Range(Songs) : s.owner = "bob"

---------------------------------------------------------------------------
(* C5 *)

\* C5: GET /users/{username}/songs is answered 404 when the username is not
\* in the user collection, and 200 with an empty sequence when the user
\* exists and owns no song.
C5_UnknownUserNotFound ==
  [][ \A w \in Workers : \A u \in Usernames :
        Handled(w) /\ Is(req[w], "GET", <<"users", u, "songs">>) =>
          /\ ~HasUser(store[injected], u) =>
               resp'[w].status = 404 /\ resp'[w].body = << >>
          /\ HasUser(store[injected], u) /\ OwnedBy(u) = << >> =>
               resp'[w].status = 200 /\ resp'[w].body = << >> ]_vars

C5_Witness ==
  /\ Answered("w1")
  /\ Is(req["w1"], "GET", <<"users", "alice", "songs">>)
  /\ resp["w1"].status = 404
  /\ ~HasUser(store[injected], "alice")
  /\ HasUser(store[injected], "bob")

---------------------------------------------------------------------------
(* C6 *)

OwnersExist ==
  \A s \in Range(Songs) : HasUser(store[injected], s.owner)

\* C6: a POST /songs/ whose body has no owner, or an owner that is not in
\* the user collection, is answered 400 and leaves the song collection as it
\* was; and every song's owner is always a user of the user collection.
C6_OwnerValidated ==
  /\ []OwnersExist
  /\ [][ \A w \in Workers :
           /\ Handled(w)
           /\ Is(req[w], "POST", <<"songs">>)
           /\ \/ "owner" \notin DOMAIN req[w].body
              \/ ~HasUser(store[injected], req[w].body.owner)
           => /\ resp'[w].status = 400
              /\ Songs' = Songs ]_vars

C6_Witness ==
  /\ Answered("w1")
  /\ Is(req["w1"], "POST", <<"songs">>)
  /\ req["w1"].body = [title |-> "X"]
  /\ resp["w1"].status = 400
  /\ Users # << >>

---------------------------------------------------------------------------
(* C7 *)

TokensUnique ==
  \A i, j \in 1..Len(Tokens) : Tokens[i].token = Tokens[j].token => i = j

\* C7: GET /tokens/{token} with the value a POST /tokens/ returned resolves
\* to the record that POST returned; with a value that is no token of the
\* collection it is answered 404; token values are unique in the collection.
C7_TokenRoundTrip ==
  /\ []TokensUnique
  /\ [][ \A w \in Workers :
           Handled(w) /\ req[w].method = "GET" /\ Len(req[w].path) = 2
                      /\ req[w].path[1] = "tokens" =>
             LET value == req[w].path[2]
             IN /\ \A t \in hist.tokens :
                     t.token = value =>
                       resp'[w].status = 200 /\ resp'[w].body = <<t>>
                /\ (\A t \in Range(Tokens) : t.token # value) =>
                     resp'[w].status = 404 ]_vars

C7_Witness ==
  /\ Answered("w1")
  /\ Is(req["w1"], "GET", <<"tokens", "t1">>)
  /\ resp["w1"].status = 200
  /\ resp["w1"].body[1] \in hist.tokens
  /\ Len(Tokens) = 2

---------------------------------------------------------------------------
(* C8 *)

UsernamesUnique ==
  \A i, j \in 1..Len(Users) : Users[i].username = Users[j].username => i = j

\* C8: with several workers serving POST /users/ concurrently, a POST whose
\* username is already in the user collection is answered 409 and leaves the
\* collection as it was, and no two users ever have the same username.
C8_NoDuplicateUsername ==
  /\ []UsernamesUnique
  /\ [][ \A w \in Workers :
           /\ Handled(w)
           /\ Is(req[w], "POST", <<"users">>)
           /\ "username" \in DOMAIN req[w].body
           /\ HasUser(store[injected], req[w].body.username)
           => /\ resp'[w].status = 409
              /\ Users' = Users ]_vars

\* Two workers were serving the same POST /users/ at once: one created the
\* user, the other got the conflict.
C8_Witness ==
  /\ Answered("w1") /\ Answered("w2")
  /\ Is(req["w1"], "POST", <<"users">>) /\ req["w2"] = req["w1"]
  /\ req["w1"].body = [username |-> "alice"]
  /\ resp["w1"].status = 201
  /\ resp["w2"].status = 409
  /\ Occurrences(Users, [username |-> "alice"]) = 1

---------------------------------------------------------------------------
(* C9 *)

\* C9: the routes of one resource class are bound to the same resource
\* object: /tokens/{token} and /tokens/ to one TokenResource, /songs/{pk} and
\* /songs/ to one SongResource.
C9_OneInstancePerResource ==
  \A i, j \in 1..Len(api.routes) :
    api.routes[i].resource.cls = api.routes[j].resource.cls
      => api.routes[i].resource.oid = api.routes[j].resource.oid

---------------------------------------------------------------------------
(* C10 *)

\* 0: unchanged, 1: one entity appended, 2: anything else.
Growth(old, new) ==
  IF new = old THEN 0
  ELSE IF Len(new) = Len(old) + 1 /\ SubSeq(new, 1, Len(old)) = old THEN 1
  ELSE 2

\* C10: a step changes the collections only by appending one entity to one
\* of them, and only when it answers a POST with 201; a GET, a failed
\* request, an unmatched path or an unsupported method changes none, and a
\* 201 adds exactly one entity.
C10_OneEntityPerRequest ==
  [][ LET grown == Growth(Users, Users') + Growth(Songs, Songs')
                     + Growth(Tokens, Tokens')
      IN /\ grown <= 1
         /\ Growth(Users, Users') < 2
         /\ Growth(Songs, Songs') < 2
         /\ Growth(Tokens, Tokens') < 2
         /\ \A d \in Databases \ {injected} : store'[d] = store[d]
         /\ (\A w \in Workers : ~Handled(w)) => grown = 0
         /\ \A w \in Workers :
              Handled(w) =>
                /\ resp'[w].status = 201 => req[w].method = "POST" /\ grown = 1
                /\ resp'[w].status # 201 => grown = 0
                /\ req[w].method # "POST" => grown = 0 ]_vars

C10_Witness ==
  /\ Answered("w1")
  /\ Is(req["w1"], "POST", <<"songs">>)
  /\ resp["w1"].status = 201
  /\ Len(Songs) = 2
  /\ Songs[2] = resp["w1"].body[1]
  /\ Tokens # << >>

=============================================================================
